---- MODULE Spec2Model ----
(***************************************************************************)
(* Cart and checkout pipeline of book-tech-back: the cart store            *)
(* (models/cartModel.js), the checkout store (models/checkoutModel.js) and *)
(* the request handlers of controllers/cartController.js and               *)
(* controllers/checkoutController.js.                                      *)
(*                                                                         *)
(* Every table is a sequence of rows in insertion order; a row's id is its *)
(* index.  A request is run by a process p: each database query of the     *)
(* handler is one step, so that the queries of concurrent requests         *)
(* interleave exactly at the handler's awaits.                             *)
(***************************************************************************)
EXTENDS Integers, Sequences, FiniteSets, TLC

\* ------------------------------------------------------------- universe
Users == {"u1", "u2"}
BookIds == {"A", "B"}
Prices == {5, 10}
Procs == {1, 2}

\* Number of requests a behaviour starts.
MaxRequests == 6

NoId == 0
NoBook == 0
NoQty == -1

SupportedMethods == {"Credit Card", "PayPal", "E-Wallet"}
OrderStatuses == {"Pending", "Payment_Success", "Payment_Failed", "Completed"}
NoMethod == ""

\* What models/bookModel.js exports.
bookModelExports ==
    {"insertBook", "findAllBooks", "findBooksByCategoryName", "findBookById",
     "updateBookById", "searchBooks", "deleteBookById", "countLikesForBook",
     "addBookComment", "getCommentsForBook", "findAllCategories"}

VARIABLES
    Books,              \* Books table: book id -> price (NoBook: no such row)
    Carts,              \* Carts table: rows [user_id]
    CartItems,          \* CartItems table: rows [cart_id, book_id, quantity]
    ShippingAddresses,  \* rows [user_id, is_default]
    Orders,             \* rows [user_id, total_amount, shipping_address_id, status, payment_id]
    Payments,           \* rows [user_id, order_id, payment_method, amount, status,
                        \*       transaction_id]
    OrderItems,         \* rows [order_id, book_id, quantity, price_at_purchase]
    UserBooks,          \* set of <<user, book>>
    pc,                 \* per request slot: the next query of the handler
    loc,                \* per request slot: the handler's local variables
    res,                \* the response sent by the last step (NoRes: none)
    nreq,               \* number of requests started
    sumAdded,           \* history: quantities passed to addOrUpdateCartItem per (cart, book)
    addOnly,            \* history: the row was built by adds alone
    lastDefaultSave,    \* history: address of the last save with is_default per user
    paidItems           \* history: per order, the (book, quantity) pairs its payment read

db == <<Books, Carts, CartItems, ShippingAddresses, Orders, Payments, OrderItems, UserBooks>>
hist == <<sumAdded, addOnly, lastDefaultSave, paidItems>>
vars == <<Books, Carts, CartItems, ShippingAddresses, Orders, Payments, OrderItems,
          UserBooks, pc, loc, res, nreq, sumAdded, addOnly, lastDefaultSave, paidItems>>

CartIds == 1..(Cardinality(Users) * Cardinality(Procs))

\* ------------------------------------------------------------- helpers
Reverse(s) == [i \in 1..Len(s) |-> s[Len(s) + 1 - i]]

RECURSIVE SumSeq(_)
SumSeq(s) == IF s = <<>> THEN 0 ELSE Head(s) + SumSeq(Tail(s))

Loc0 ==
    [h |-> "none", user |-> "none", book |-> "none", qty |-> 0, cart |-> NoId,
     existing |-> NoQty, items |-> <<>>, prices |-> <<>>, idx |-> 0,
     order |-> NoId, total |-> 0, method |-> "none", addr |-> NoId,
     isdef |-> FALSE, payment |-> NoId, tx |-> <<>>,
     addrs0 |-> <<>>]     \* history: ShippingAddresses when the request arrived

NoRes ==
    [h |-> "none", user |-> "none", code |-> 0, info |-> "none", id |-> NoId,
     pid |-> NoId]

Response(h, code, info, id) ==
    [h |-> h, user |-> "none", code |-> code, info |-> info, id |-> id, pid |-> NoId]

\* A request arrives at an idle slot.
Arrive(p) ==
    /\ pc[p] = "idle"
    /\ nreq < MaxRequests
    /\ nreq' = nreq + 1

\* res.status(code).json(...) : the request ends.
Finish(p, r) ==
    /\ pc' = [pc EXCEPT ![p] = "idle"]
    /\ loc' = [loc EXCEPT ![p] = Loc0]
    /\ res' = [r EXCEPT !.user = loc[p].user]
    /\ UNCHANGED nreq

\* The request of user u is answered before its first query.
Reply(p, u, r) ==
    /\ Arrive(p)
    /\ UNCHANGED <<pc, loc>>
    /\ res' = [r EXCEPT !.user = u]

\* The handler goes on to its next query.
Goto(p, label, l) ==
    /\ pc' = [pc EXCEPT ![p] = label]
    /\ loc' = [loc EXCEPT ![p] = l]
    /\ res' = NoRes
    /\ UNCHANGED nreq

\* The handler of an arriving request reaches its next query.
Begin(p, label, l) ==
    /\ Arrive(p)
    /\ pc' = [pc EXCEPT ![p] = label]
    /\ loc' = [loc EXCEPT ![p] = l]
    /\ res' = NoRes

\* A failed query throws; every handler's catch block answers 500.
Throw(p) == Finish(p, Response(loc[p].h, 500, "internal", NoId))

\* ------------------------------------------------------------- cart store
\* Rows of CartItems of one (cart, book), as indices.
CartItemRows(c, b) ==
    {i \in 1..Len(CartItems) : CartItems[i].cart_id = c /\ CartItems[i].book_id = b}

CartRowsOf(u) == {i \in 1..Len(Carts) : Carts[i].user_id = u}

\* findBookById: the price of the book, NoBook when there is no such row.
findBookById(b) == Books[b]

\* getCartItemsByCartId: the rows of the cart joined with Books, most recently
\* added first.
getCartItemsByCartId(c) ==
    LET mine == SelectSeq(CartItems,
                    LAMBDA r : r.cart_id = c /\ Books[r.book_id] # NoBook)
    IN  Reverse([i \in 1..Len(mine) |->
                    [book_id |-> mine[i].book_id,
                     quantity |-> mine[i].quantity,
                     price |-> Books[mine[i].book_id]]])

\* removeCartItem: DELETE ... WHERE cart_id AND book_id; true iff a row went.
removeCartItem(items, c, b) ==
    [items |-> SelectSeq(items, LAMBDA r : ~(r.cart_id = c /\ r.book_id = b)),
     result |-> \E i \in 1..Len(items) : items[i].cart_id = c /\ items[i].book_id = b]

\* The UPDATE of a cart row's quantity (every row the WHERE matches).
SetQuantity(items, c, b, q) ==
    [i \in 1..Len(items) |->
        IF items[i].cart_id = c /\ items[i].book_id = b
        THEN [items[i] EXCEPT !.quantity = q]
        ELSE items[i]]

UpdateGuardMutant(newQuantity) == newQuantity < 0
\* updateCartItemQuantity's test for removal.
UpdateGuard(newQuantity) == newQuantity <= 0

\* updateCartItemQuantity: removal for a quantity <= 0, else the UPDATE; the
\* result is the removal's boolean, or whether a row was returned.
updateCartItemQuantity(items, c, b, newQuantity) ==
    IF UpdateGuard(newQuantity)
    THEN removeCartItem(items, c, b)
    ELSE [items |-> SetQuantity(items, c, b, newQuantity),
          result |-> \E i \in 1..Len(items) :
                        items[i].cart_id = c /\ items[i].book_id = b]

CartIsEmptyMutant(cartItems) == FALSE
\* cartItems.length === 0
CartIsEmpty(cartItems) == cartItems = <<>>

\* The step a handler takes once it holds its cart.
AfterCart(h) ==
    CASE h = "addItemToCart" -> "add_select"
      [] h = "updateCartItem" -> "upd_write"
      [] h = "deleteCartItem" -> "del_write"
      [] h = "setShippingInformation" -> "ship_items"
      [] h = "setPaymentMethod" -> "pay_items"
      [] h = "confirmOrder" -> "c_items"
      [] OTHER -> "sess_items"

\* getOrCreateCart, first query: SELECT cart_id FROM Carts WHERE user_id.
\* rows[0] of a query without ORDER BY is any of the matching rows.
GocSelect(p) ==
    /\ pc[p] = "goc_select"
    /\ IF CartRowsOf(loc[p].user) = {}
       THEN Goto(p, "goc_insert", loc[p])
       ELSE \E c \in CartRowsOf(loc[p].user) :
                Goto(p, AfterCart(loc[p].h), [loc[p] EXCEPT !.cart = c])
    /\ UNCHANGED <<db, hist>>

\* getOrCreateCart, second query: INSERT INTO Carts.  When another request
\* inserted the user's cart in between, the insert adds a second row or
\* violates a unique constraint, as the schema has it.
GocInsert(p) ==
    /\ pc[p] = "goc_insert"
    /\ \/ /\ Carts' = Append(Carts, [user_id |-> loc[p].user])
          /\ Goto(p, AfterCart(loc[p].h), [loc[p] EXCEPT !.cart = Len(Carts) + 1])
       \/ /\ CartRowsOf(loc[p].user) # {}
          /\ UNCHANGED Carts
          /\ Throw(p)
    /\ UNCHANGED <<Books, CartItems, ShippingAddresses, Orders, Payments,
                   OrderItems, UserBooks, hist>>

AddGuardMutant(quantity) == quantity < 0
\* addItemToCart's test of the quantity: typeof quantity !== "number" || quantity <= 0.
AddGuard(quantity) == quantity <= 0

\* addItemToCart: validation and findBookById.
StartAdd(p, u, b, q) ==
    /\ IF AddGuard(q)
       THEN /\ Reply(p, u, Response("addItemToCart", 400, "bad_quantity", NoId))
       ELSE IF findBookById(b) = NoBook
       THEN /\ Reply(p, u, Response("addItemToCart", 404, "no_book", NoId))
       ELSE Begin(p, "goc_select",
                  [Loc0 EXCEPT !.h = "addItemToCart", !.user = u, !.book = b, !.qty = q])
    /\ UNCHANGED <<db, hist>>

\* addOrUpdateCartItem, first query: SELECT quantity of the (cart, book) row.
AddSelect(p) ==
    /\ pc[p] = "add_select"
    /\ LET rows == CartItemRows(loc[p].cart, loc[p].book)
       IN  IF rows = {}
           THEN Goto(p, "add_write", [loc[p] EXCEPT !.existing = NoQty])
           ELSE \E i \in rows :
                    Goto(p, "add_write",
                         [loc[p] EXCEPT !.existing = CartItems[i].quantity])
    /\ UNCHANGED <<db, hist>>

\* History of a call addOrUpdateCartItem(cart, book, q).
NoteAdd(key, q) ==
    /\ sumAdded' = [sumAdded EXCEPT ![key] = IF addOnly[key] THEN @ + q ELSE 0]
    /\ UNCHANGED addOnly

AddedQuantityMutant(existing, quantity) == quantity
\* addOrUpdateCartItem: updatedQuantity = existing quantity + quantity.
AddedQuantity(existing, quantity) == existing + quantity

\* addOrUpdateCartItem, second query: the UPDATE when a row was read, else the
\* INSERT (which adds a second row or violates a unique constraint when
\* another request inserted the pair in between).
AddWrite(p) ==
    /\ pc[p] = "add_write"
    /\ LET c == loc[p].cart
           b == loc[p].book
           key == <<c, b>>
       IN  IF loc[p].existing # NoQty
           THEN /\ CartItems' = SetQuantity(CartItems, c, b,
                                    AddedQuantity(loc[p].existing, loc[p].qty))
                /\ NoteAdd(key, loc[p].qty)
                /\ Finish(p, Response("addItemToCart", 200, "updated", NoId))
           ELSE \/ /\ CartItems' = Append(CartItems,
                            [cart_id |-> c, book_id |-> b, quantity |-> loc[p].qty])
                   /\ NoteAdd(key, loc[p].qty)
                   /\ Finish(p, Response("addItemToCart", 200, "created", NoId))
                \/ /\ CartItemRows(c, b) # {}
                   /\ UNCHANGED <<CartItems, sumAdded, addOnly>>
                   /\ Throw(p)
    /\ UNCHANGED <<Books, Carts, ShippingAddresses, Orders, Payments, OrderItems,
                   UserBooks, lastDefaultSave, paidItems>>

\* updateCartItem: validation, then getOrCreateCart.
StartUpdate(p, u, b, q) ==
    /\ IF q < 0
       THEN /\ Reply(p, u, Response("updateCartItem", 400, "bad_quantity", NoId))
       ELSE Begin(p, "goc_select",
                  [Loc0 EXCEPT !.h = "updateCartItem", !.user = u, !.book = b, !.qty = q])
    /\ UNCHANGED <<db, hist>>

\* updateCartItem: updateCartItemQuantity and the answer.
UpdWrite(p) ==
    /\ pc[p] = "upd_write"
    /\ LET c == loc[p].cart
           b == loc[p].book
           key == <<c, b>>
           out == updateCartItemQuantity(CartItems, c, b, loc[p].qty)
       IN  /\ CartItems' = out.items
           /\ IF CartItemRows(c, b) = {}
              THEN UNCHANGED <<sumAdded, addOnly>>
              ELSE IF UpdateGuard(loc[p].qty)
              THEN /\ sumAdded' = [sumAdded EXCEPT ![key] = 0]
                   /\ addOnly' = [addOnly EXCEPT ![key] = TRUE]
              ELSE /\ sumAdded' = [sumAdded EXCEPT ![key] = 0]
                   /\ addOnly' = [addOnly EXCEPT ![key] = FALSE]
           /\ IF out.result
              THEN Finish(p, Response("updateCartItem", 200,
                        IF UpdateGuard(loc[p].qty) THEN "removed" ELSE "updated", NoId))
              ELSE Finish(p, Response("updateCartItem", 404, "no_item", NoId))
    /\ UNCHANGED <<Books, Carts, ShippingAddresses, Orders, Payments, OrderItems,
                   UserBooks, lastDefaultSave, paidItems>>

\* deleteCartItem: getOrCreateCart first.
StartDelete(p, u, b) ==
    /\ Begin(p, "goc_select",
             [Loc0 EXCEPT !.h = "deleteCartItem", !.user = u, !.book = b])
    /\ UNCHANGED <<db, hist>>

\* deleteCartItem: removeCartItem and the answer.
DelWrite(p) ==
    /\ pc[p] = "del_write"
    /\ LET c == loc[p].cart
           b == loc[p].book
           key == <<c, b>>
           out == removeCartItem(CartItems, c, b)
       IN  /\ CartItems' = out.items
           /\ sumAdded' = [sumAdded EXCEPT ![key] = 0]
           /\ addOnly' = [addOnly EXCEPT ![key] = TRUE]
           /\ IF out.result
              THEN Finish(p, Response("deleteCartItem", 200, "removed", NoId))
              ELSE Finish(p, Response("deleteCartItem", 404, "no_item", NoId))
    /\ UNCHANGED <<Books, Carts, ShippingAddresses, Orders, Payments, OrderItems,
                   UserBooks, lastDefaultSave, paidItems>>

\* ------------------------------------------------------------- addresses
AddressesOf(u) ==
    {i \in 1..Len(ShippingAddresses) : ShippingAddresses[i].user_id = u}

DefaultsOf(u) == {i \in AddressesOf(u) : ShippingAddresses[i].is_default}

ClearDefaultsMutant(addrs, u) == addrs
\* saveShippingAddress, first query: UPDATE ... SET is_default = FALSE WHERE user_id.
ClearDefaults(addrs, u) ==
    [i \in 1..Len(addrs) |->
        IF addrs[i].user_id = u THEN [addrs[i] EXCEPT !.is_default = FALSE]
        ELSE addrs[i]]

\* saveShippingAddress, second query: the INSERT of the new address.
InsertAddress(p, u, isdef) ==
    /\ lastDefaultSave' =
          IF isdef THEN [lastDefaultSave EXCEPT ![u] = Len(ShippingAddresses) + 1]
          ELSE lastDefaultSave

OwnAddressMutant(addressId, u) == addressId \in 1..Len(ShippingAddresses)
\* setShippingInformation: the addressId is found among getShippingAddresses(userId).
OwnAddress(addressId, u) == addressId \in AddressesOf(u)

\* setShippingInformation up to its first query: getShippingAddresses for an
\* addressId; for a new address the clearing UPDATE (is_default) or the INSERT.
StartShipping(p, u, addressId, fields, isdef) ==
    LET l == [Loc0 EXCEPT !.h = "setShippingInformation", !.user = u, !.isdef = isdef,
                          !.addrs0 = ShippingAddresses]
    IN  IF addressId # NoId
        THEN /\ IF OwnAddress(addressId, u)
                THEN Begin(p, "goc_select", [l EXCEPT !.addr = addressId])
                ELSE /\ Reply(p, u, Response("setShippingInformation", 404,
                                             "no_address", addressId))
             /\ UNCHANGED <<db, hist>>
        ELSE IF fields
        THEN IF isdef
             THEN /\ ShippingAddresses' = ClearDefaults(ShippingAddresses, u)
                  /\ Begin(p, "ship_insert", l)
                  /\ UNCHANGED <<Books, Carts, CartItems, Orders, Payments,
                                 OrderItems, UserBooks, hist>>
             ELSE /\ InsertAddress(p, u, FALSE)
                  /\ ShippingAddresses' = Append(ShippingAddresses,
                                            [user_id |-> u, is_default |-> FALSE])
                  /\ Begin(p, "goc_select", [l EXCEPT !.addr = Len(ShippingAddresses) + 1])
                  /\ UNCHANGED <<Books, Carts, CartItems, Orders, Payments,
                                 OrderItems, UserBooks, sumAdded, addOnly, paidItems>>
        ELSE /\ Reply(p, u, Response("setShippingInformation", 400, "missing_fields", NoId))
             /\ UNCHANGED <<db, hist>>

\* saveShippingAddress with is_default: the INSERT after the clearing UPDATE.
ShipInsert(p) ==
    /\ pc[p] = "ship_insert"
    /\ InsertAddress(p, loc[p].user, TRUE)
    /\ ShippingAddresses' = Append(ShippingAddresses,
                                [user_id |-> loc[p].user, is_default |-> TRUE])
    /\ Goto(p, "goc_select", [loc[p] EXCEPT !.addr = Len(ShippingAddresses) + 1])
    /\ UNCHANGED <<Books, Carts, CartItems, Orders, Payments, OrderItems,
                   UserBooks, sumAdded, addOnly, paidItems>>

\* setShippingInformation: the cart must hold an item; the answer.
ShipItems(p) ==
    /\ pc[p] = "ship_items"
    /\ IF CartIsEmpty(getCartItemsByCartId(loc[p].cart))
       THEN Finish(p, Response("setShippingInformation", 400, "cart_empty", NoId))
       ELSE Finish(p, Response("setShippingInformation", 200, "selected", loc[p].addr))
    /\ UNCHANGED <<db, hist>>

\* ------------------------------------------------------------- checkout
RECURSIVE TotalAmountMutant(_)
TotalAmountMutant(items) ==
    IF items = <<>> THEN 0
    ELSE TotalAmountMutant(SubSeq(items, 1, Len(items) - 1)) + items[Len(items)].price

\* cartItems.reduce((sum, item) => sum + item.price * item.quantity, 0)
RECURSIVE TotalAmount(_)
TotalAmount(items) ==
    IF items = <<>> THEN 0
    ELSE TotalAmount(SubSeq(items, 1, Len(items) - 1))
            + items[Len(items)].price * items[Len(items)].quantity

SimulatePaymentMutant(method) == "Completed"
SimulatePaymentDeclines(method) == "Failed"
\* The simulated payment: Completed for a supported method.
SimulatePayment(method) ==
    IF method \in SupportedMethods THEN "Completed" ELSE "Unsupported"

updateOrderStatusMutant(orders, o, newStatus, paymentId) ==
    [i \in 1..Len(orders) |->
        IF i = o THEN [orders[i] EXCEPT !.status = newStatus] ELSE orders[i]]

\* The simulated payment's transaction id: `txn_<time>_<random>`, set together
\* with Completed; null otherwise.
TransactionId(method) == IF method \in SupportedMethods THEN "txn" ELSE "null"

\* updateOrderStatus: status = newStatus, payment_id = COALESCE(paymentId, payment_id).
updateOrderStatus(orders, o, newStatus, paymentId) ==
    [i \in 1..Len(orders) |->
        IF i = o
        THEN [orders[i] EXCEPT !.status = newStatus,
                               !.payment_id = IF paymentId = NoId THEN @ ELSE paymentId]
        ELSE orders[i]]

\* setPaymentMethod: the method must be given; then getOrCreateCart.
StartPayment(p, u, method, addressId) ==
    /\ IF method = NoMethod
       THEN /\ Reply(p, u, Response("setPaymentMethod", 400, "no_method", NoId))
       ELSE Begin(p, "goc_select",
                  [Loc0 EXCEPT !.h = "setPaymentMethod", !.user = u,
                               !.method = method, !.addr = addressId])
    /\ UNCHANGED <<db, hist>>

\* setPaymentMethod: the cart's items, the total and the simulated payment.
PayItems(p) ==
    /\ pc[p] = "pay_items"
    /\ LET cartItems == getCartItemsByCartId(loc[p].cart)
       IN  IF CartIsEmpty(cartItems)
           THEN Finish(p, Response("setPaymentMethod", 400, "cart_empty", NoId))
           ELSE IF SimulatePayment(loc[p].method) # "Completed"
           THEN Finish(p, Response("setPaymentMethod", 400, "unsupported", NoId))
           ELSE Goto(p, "pay_order",
                     [loc[p] EXCEPT !.items = cartItems,
                                    !.total = TotalAmount(cartItems)])
    /\ UNCHANGED <<db, hist>>

\* setPaymentMethod: createOrder, a Pending order with the total and the
\* shippingAddressId of the request's body as it came.  For an id that names no
\* address the schema decides: the row is inserted, or a foreign key refuses it.
PayOrder(p) ==
    /\ pc[p] = "pay_order"
    /\ \/ /\ Orders' = Append(Orders,
                [user_id |-> loc[p].user, total_amount |-> loc[p].total,
                 shipping_address_id |-> loc[p].addr, status |-> "Pending",
                 payment_id |-> NoId])
          /\ paidItems' = Append(paidItems,
                [i \in 1..Len(loc[p].items) |->
                    <<loc[p].items[i].book_id, loc[p].items[i].quantity>>])
          /\ Goto(p, "pay_record", [loc[p] EXCEPT !.order = Len(Orders) + 1])
       \/ /\ loc[p].addr # NoId
          /\ loc[p].addr \notin 1..Len(ShippingAddresses)
          /\ UNCHANGED <<Orders, paidItems>>
          /\ Throw(p)
    /\ UNCHANGED <<Books, Carts, CartItems, ShippingAddresses, Payments,
                   OrderItems, UserBooks, sumAdded, addOnly, lastDefaultSave>>

\* setPaymentMethod: createPaymentRecord for the order.
PayRecord(p) ==
    /\ pc[p] = "pay_record"
    /\ Payments' = Append(Payments,
            [user_id |-> loc[p].user, order_id |-> loc[p].order,
             payment_method |-> loc[p].method, amount |-> loc[p].total,
             status |-> SimulatePayment(loc[p].method),
             transaction_id |-> TransactionId(loc[p].method)])
    /\ Goto(p, "pay_status", [loc[p] EXCEPT !.payment = Len(Payments) + 1])
    /\ UNCHANGED <<Books, Carts, CartItems, ShippingAddresses, Orders,
                   OrderItems, UserBooks, hist>>

\* setPaymentMethod: updateOrderStatus by the payment's outcome, and the answer.
PayStatus(p) ==
    /\ pc[p] = "pay_status"
    /\ IF SimulatePayment(loc[p].method) = "Completed"
       THEN /\ Orders' = updateOrderStatus(Orders, loc[p].order, "Payment_Success",
                                           loc[p].payment)
            /\ Finish(p, [Response("setPaymentMethod", 200, "Payment_Success",
                                   loc[p].order) EXCEPT !.pid = loc[p].payment])
       ELSE /\ Orders' = updateOrderStatus(Orders, loc[p].order, "Payment_Failed",
                                           loc[p].payment)
            /\ Finish(p, [Response("setPaymentMethod", 402, "Payment_Failed",
                                   loc[p].order) EXCEPT !.pid = loc[p].payment])
    /\ UNCHANGED <<Books, Carts, CartItems, ShippingAddresses, Payments,
                   OrderItems, UserBooks, hist>>

ConfirmableMutant(status) == status \in {"Payment_Success", "Completed"}
\* confirmOrder's test of the order's status.
Confirmable(status) == status = "Payment_Success"

NotFoundOrForeignMutant(orderId, u) == orderId \notin 1..Len(Orders)
\* confirmOrder: !order || order.user_id !== userId, on getOrderById's row.
NotFoundOrForeign(orderId, u) ==
    orderId \notin 1..Len(Orders) \/ Orders[orderId].user_id # u

StartConfirmMutant(p, u, orderId) ==
    /\ IF orderId = NoId
       THEN /\ Reply(p, u, Response("confirmOrder", 400, "no_order_id", orderId))
       ELSE IF orderId \notin 1..Len(Orders)
       THEN /\ Reply(p, u, Response("confirmOrder", 404, "not_found", orderId))
       ELSE IF ~Confirmable(Orders[orderId].status)
       THEN /\ Reply(p, u, Response("confirmOrder", 400, Orders[orderId].status, orderId))
       ELSE IF NotFoundOrForeign(orderId, u)
       THEN /\ Reply(p, u, Response("confirmOrder", 404, "not_found", orderId))
       ELSE Begin(p, "goc_select",
                  [Loc0 EXCEPT !.h = "confirmOrder", !.user = u, !.order = orderId])
    /\ UNCHANGED <<db, hist>>

\* confirmOrder: the orderId must be given; getOrderById; the order must be
\* the caller's and paid.
StartConfirm(p, u, orderId) ==
    /\ IF orderId = NoId
       THEN /\ Reply(p, u, Response("confirmOrder", 400, "no_order_id", orderId))
       ELSE IF NotFoundOrForeign(orderId, u)
       THEN /\ Reply(p, u, Response("confirmOrder", 404, "not_found", orderId))
       ELSE IF ~Confirmable(Orders[orderId].status)
       THEN /\ Reply(p, u, Response("confirmOrder", 400, Orders[orderId].status, orderId))
       ELSE Begin(p, "goc_select",
                  [Loc0 EXCEPT !.h = "confirmOrder", !.user = u, !.order = orderId])
    /\ UNCHANGED <<db, hist>>

\* confirmOrder: the cart's items; an empty cart is refused.
CItems(p) ==
    /\ pc[p] = "c_items"
    /\ LET cartItems == getCartItemsByCartId(loc[p].cart)
       IN  IF CartIsEmpty(cartItems)
           THEN Finish(p, Response("confirmOrder", 400, "cart_empty", loc[p].order))
           ELSE Goto(p, "c_book", [loc[p] EXCEPT !.items = cartItems, !.idx = 1])
    /\ UNCHANGED <<db, hist>>

PurchasePriceMutant(item, book) == item.price
\* price_at_purchase: book.price, the price findBookById returned.
PurchasePrice(item, book) == book

\* confirmOrder: findBookById for the next cart item; a missing book throws.
CBook(p) ==
    /\ pc[p] = "c_book"
    /\ LET item == loc[p].items[loc[p].idx]
           book == findBookById(item.book_id)
       IN  IF book = NoBook
           THEN Throw(p)
           ELSE Goto(p, IF loc[p].idx = Len(loc[p].items) THEN "c_add" ELSE "c_book",
                     [loc[p] EXCEPT !.prices = Append(@, PurchasePrice(item, book)),
                                    !.idx = @ + 1])
    /\ UNCHANGED <<db, hist>>

\* itemsForOrder: book, quantity of the cart item, price_at_purchase.
ItemsForOrder(l) ==
    [i \in 1..Len(l.items) |->
        [order_id |-> l.order, book_id |-> l.items[i].book_id,
         quantity |-> l.items[i].quantity, price_at_purchase |-> l.prices[i]]]

\* Item lists passed to addOrderItems called on its own.
ItemLists ==
    LET a == [book_id |-> "A", quantity |-> 2, price |-> 10]
        b == [book_id |-> "B", quantity |-> 1, price |-> 5]
    IN  {<<>>, <<a>>, <<a, b>>}

TxInsertMutant(table, tx, row) == [table |-> Append(table, row), tx |-> tx]
\* client.query(INSERT) between BEGIN and COMMIT: the row is held by the
\* client's transaction, no other connection reads it.
TxInsert(table, tx, row) == [table |-> table, tx |-> Append(tx, row)]

\* addOrderItems(orderId, items): pool.connect and BEGIN.
StartAddOrderItems(p, orderId, items) ==
    /\ Begin(p, IF items = <<>> THEN "aoi_commit" ELSE "aoi_insert",
             [Loc0 EXCEPT !.h = "addOrderItems", !.order = orderId, !.items = items,
                          !.prices = [i \in 1..Len(items) |-> items[i].price],
                          !.idx = 1])
    /\ UNCHANGED <<db, hist>>

\* addOrderItems: the INSERT of the next item; when it fails, ROLLBACK and
\* the error is thrown again.
AoiInsert(p) ==
    /\ pc[p] = "aoi_insert"
    /\ \/ LET out == TxInsert(OrderItems, loc[p].tx, ItemsForOrder(loc[p])[loc[p].idx])
          IN  /\ OrderItems' = out.table
              /\ Goto(p, IF loc[p].idx = Len(loc[p].items) THEN "aoi_commit"
                         ELSE "aoi_insert",
                      [loc[p] EXCEPT !.tx = out.tx, !.idx = @ + 1])
       \/ /\ UNCHANGED OrderItems
          /\ Finish(p, Response("addOrderItems", 500, "raised", loc[p].order))
    /\ UNCHANGED <<Books, Carts, CartItems, ShippingAddresses, Orders, Payments,
                   UserBooks, hist>>

\* addOrderItems: COMMIT, the inserted rows are returned.
AoiCommit(p) ==
    /\ pc[p] = "aoi_commit"
    /\ OrderItems' = OrderItems \o loc[p].tx
    /\ Finish(p, Response("addOrderItems", 200, "returned", loc[p].order))
    /\ UNCHANGED <<Books, Carts, CartItems, ShippingAddresses, Orders, Payments,
                   UserBooks, hist>>

\* confirmOrder: addOrderItems, the INSERTs of one committed transaction.
CAdd(p) ==
    /\ pc[p] = "c_add"
    /\ OrderItems' = OrderItems \o ItemsForOrder(loc[p])
    /\ Goto(p, "c_status", loc[p])
    /\ UNCHANGED <<Books, Carts, CartItems, ShippingAddresses, Orders, Payments,
                   UserBooks, hist>>

\* confirmOrder: updateOrderStatus(order, 'Completed').
CStatus(p) ==
    /\ pc[p] = "c_status"
    /\ Orders' = updateOrderStatus(Orders, loc[p].order, "Completed", NoId)
    /\ Goto(p, "c_drain", [loc[p] EXCEPT !.idx = 1])
    /\ UNCHANGED <<Books, Carts, CartItems, ShippingAddresses, Payments,
                   OrderItems, UserBooks, hist>>

\* confirmOrder: removeCartItem for the next item read from the cart.
CDrain(p) ==
    /\ pc[p] = "c_drain"
    /\ LET b == loc[p].items[loc[p].idx].book_id
           key == <<loc[p].cart, b>>
       IN  /\ CartItems' = removeCartItem(CartItems, loc[p].cart, b).items
           /\ sumAdded' = [sumAdded EXCEPT ![key] = 0]
           /\ addOnly' = [addOnly EXCEPT ![key] = TRUE]
    /\ Goto(p, IF loc[p].idx = Len(loc[p].items) THEN "c_purchase" ELSE "c_drain",
            [loc[p] EXCEPT !.idx = @ + 1])
    /\ UNCHANGED <<Books, Carts, ShippingAddresses, Orders, Payments, OrderItems,
                   UserBooks, lastDefaultSave, paidItems>>

\* confirmOrder: bookModel.purchaseBook for each item, then the answer.  The
\* call of a name the module does not export throws a TypeError.
CPurchase(p) ==
    /\ pc[p] = "c_purchase"
    /\ IF "purchaseBook" \in bookModelExports
       THEN /\ UserBooks' = UserBooks \cup
                    {<<loc[p].user, loc[p].items[i].book_id>> : i \in 1..Len(loc[p].items)}
            /\ Finish(p, Response("confirmOrder", 200, "Completed", loc[p].order))
       ELSE /\ UNCHANGED UserBooks
            /\ Finish(p, Response("confirmOrder", 500, "internal", loc[p].order))
    /\ UNCHANGED <<Books, Carts, CartItems, ShippingAddresses, Orders, Payments,
                   OrderItems, hist>>

\* updateBook (PUT /api/books/:bookId) with a new price: updateBookById.
UpdateBookPrice(b, price) ==
    /\ nreq < MaxRequests
    /\ nreq' = nreq + 1
    /\ Books[b] # NoBook
    /\ Books[b] # price
    /\ Books' = [Books EXCEPT ![b] = price]
    /\ res' = NoRes
    /\ UNCHANGED <<Carts, CartItems, ShippingAddresses, Orders, Payments,
                   OrderItems, UserBooks, pc, loc, hist>>

\* getCheckoutSessionStatus: getOrCreateCart first.
StartSession(p, u) ==
    /\ Begin(p, "goc_select", [Loc0 EXCEPT !.h = "getCheckoutSessionStatus", !.user = u])
    /\ UNCHANGED <<db, hist>>

\* getCheckoutSessionStatus: the cart's items and their total.
SessItems(p) ==
    /\ pc[p] = "sess_items"
    /\ LET cartItems == getCartItemsByCartId(loc[p].cart)
       IN  Goto(p, "sess_addrs",
                [loc[p] EXCEPT !.items = cartItems, !.total = TotalAmount(cartItems)])
    /\ UNCHANGED <<db, hist>>

\* getCheckoutSessionStatus: getShippingAddresses and the answer.
SessAddresses(p) ==
    /\ pc[p] = "sess_addrs"
    /\ Finish(p, [Response("getCheckoutSessionStatus", 200, "session", loc[p].cart)
                    EXCEPT !.pid = loc[p].total])
    /\ UNCHANGED <<db, hist>>

\* deleteBook (DELETE /api/books/:bookId): deleteBookById, DELETE FROM Books.
\* For the cart items that reference the book the schema decides: the delete
\* is refused (foreign key), the rows go with the book (ON DELETE CASCADE), or
\* the rows stay (no foreign key).
DeleteBook(b) ==
    /\ nreq < MaxRequests
    /\ nreq' = nreq + 1
    /\ Books[b] # NoBook
    /\ \/ /\ \E i \in 1..Len(CartItems) : CartItems[i].book_id = b
          /\ UNCHANGED <<Books, CartItems, sumAdded, addOnly>>
          /\ res' = Response("deleteBook", 500, "internal", NoId)
       \/ /\ Books' = [Books EXCEPT ![b] = NoBook]
          /\ CartItems' = SelectSeq(CartItems, LAMBDA r : r.book_id # b)
          /\ sumAdded' = [k \in CartIds \X BookIds |->
                            IF k[2] = b THEN 0 ELSE sumAdded[k]]
          /\ addOnly' = [k \in CartIds \X BookIds |->
                            IF k[2] = b THEN TRUE ELSE addOnly[k]]
          /\ res' = Response("deleteBook", 204, "deleted", NoId)
       \/ /\ Books' = [Books EXCEPT ![b] = NoBook]
          /\ UNCHANGED <<CartItems, sumAdded, addOnly>>
          /\ res' = Response("deleteBook", 204, "deleted", NoId)
    /\ UNCHANGED <<Carts, ShippingAddresses, Orders, Payments, OrderItems,
                   UserBooks, pc, loc, lastDefaultSave, paidItems>>

\* purchaseBook (POST /api/auth/purchase): addUserBook, INSERT INTO UserBooks;
\* a unique violation (23505) is answered 409, a foreign key violation 400.
PurchaseBook(u, b) ==
    /\ nreq < MaxRequests
    /\ nreq' = nreq + 1
    /\ IF <<u, b>> \in UserBooks
       THEN /\ UNCHANGED UserBooks
            /\ res' = [Response("purchaseBook", 409, "already_owned", NoId)
                            EXCEPT !.user = u]
       ELSE \/ /\ UserBooks' = UserBooks \cup {<<u, b>>}
               /\ res' = [Response("purchaseBook", 201, "added", NoId) EXCEPT !.user = u]
            \/ /\ Books[b] = NoBook
               /\ UNCHANGED UserBooks
               /\ res' = [Response("purchaseBook", 400, "no_book", NoId) EXCEPT !.user = u]
    /\ UNCHANGED <<Books, Carts, CartItems, ShippingAddresses, Orders, Payments,
                   OrderItems, pc, loc, hist>>

\* updateOrderStatusAdmin: UPDATE Orders SET status.
UpdateOrderStatusAdmin(o, newStatus) ==
    /\ nreq < MaxRequests
    /\ nreq' = nreq + 1
    /\ o \in 1..Len(Orders)
    /\ Orders[o].status # newStatus
    /\ Orders' = [Orders EXCEPT ![o].status = newStatus]
    /\ res' = NoRes
    /\ UNCHANGED <<Books, Carts, CartItems, ShippingAddresses, Payments,
                   OrderItems, UserBooks, pc, loc, hist>>

\* ------------------------------------------------------------- initial state
Init ==
    /\ Books = [b \in BookIds |-> IF b = "A" THEN 10 ELSE 5]
    /\ Carts = <<>>
    /\ CartItems = <<>>
    /\ ShippingAddresses = <<>>
    /\ Orders = <<>>
    /\ Payments = <<>>
    /\ OrderItems = <<>>
    /\ UserBooks = {}
    /\ pc = [p \in Procs |-> "idle"]
    /\ loc = [p \in Procs |-> Loc0]
    /\ res = NoRes
    /\ nreq = 0
    /\ sumAdded = [k \in CartIds \X BookIds |-> 0]
    /\ addOnly = [k \in CartIds \X BookIds |-> TRUE]
    /\ lastDefaultSave = [u \in Users |-> NoId]
    /\ paidItems = <<>>

\* ------------------------------------------------------------- cart requests
\* Cart requests of one user, one at a time.
CartSeqNext ==
    \/ \E b \in BookIds, q \in 0..2 : StartAdd(1, "u1", b, q)
    \/ \E b \in BookIds, q \in -1..2 : StartUpdate(1, "u1", b, q)
    \/ \E b \in BookIds : StartDelete(1, "u1", b)
    \/ GocSelect(1)
    \/ GocInsert(1)
    \/ AddSelect(1)
    \/ AddWrite(1)
    \/ UpdWrite(1)
    \/ DelWrite(1)

CartSeqSpec == Init /\ [][CartSeqNext]_vars

\* Shipping requests (and the adds that fill a cart), one at a time.
AddrSeqNext ==
    \/ \E u \in Users : StartAdd(1, u, "A", 1)
    \/ \E u \in Users, a \in 0..2, f \in BOOLEAN, d \in BOOLEAN :
            StartShipping(1, u, a, f, d)
    \/ ShipInsert(1)
    \/ ShipItems(1)
    \/ GocSelect(1)
    \/ GocInsert(1)
    \/ AddSelect(1)
    \/ AddWrite(1)

AddrSeqSpec == Init /\ [][AddrSeqNext]_vars

\* Shipping requests of one user, running concurrently.
AddrNext ==
    \E p \in Procs :
        \/ \E a \in 0..1, f \in BOOLEAN, d \in BOOLEAN : StartShipping(p, "u1", a, f, d)
        \/ ShipInsert(p)
        \/ ShipItems(p)
        \/ GocSelect(p)
        \/ GocInsert(p)

AddrSpec == Init /\ [][AddrNext]_vars

\* Add-to-cart requests of one user, running concurrently.
CartNext ==
    \E p \in Procs :
        \/ \E q \in 0..2 : StartAdd(p, "u1", "A", q)
        \/ GocSelect(p)
        \/ GocInsert(p)
        \/ AddSelect(p)
        \/ AddWrite(p)

CartSpec == Init /\ [][CartNext]_vars

\* The checkout of user u1, one request at a time, confirmations also tried
\* by u2, while the administration changes the catalog's prices and the
\* status of orders.
CheckoutNext ==
    \/ \E b \in BookIds, q \in 1..2 : StartAdd(1, "u1", b, q)
    \/ \E m \in {"Credit Card", "Bitcoin", NoMethod} : StartPayment(1, "u1", m, NoId)
    \/ \E u \in Users, o \in 0..2 : StartConfirm(1, u, o)
    \/ GocSelect(1)
    \/ GocInsert(1)
    \/ AddSelect(1)
    \/ AddWrite(1)
    \/ PayItems(1)
    \/ PayOrder(1)
    \/ PayRecord(1)
    \/ PayStatus(1)
    \/ CItems(1)
    \/ CBook(1)
    \/ CAdd(1)
    \/ CStatus(1)
    \/ CDrain(1)
    \/ CPurchase(1)
    \/ \E b \in BookIds, price \in Prices : UpdateBookPrice(b, price)
    \/ \E o \in 1..2, st \in {"Pending", "Payment_Failed"} :
            UpdateOrderStatusAdmin(o, st)

CheckoutSpec == Init /\ [][CheckoutNext]_vars

\* Confirmations of u1 running concurrently, after the adds and the payment
\* that prepare the order.
ConfirmRaceNext ==
    \/ \E b \in BookIds : StartAdd(1, "u1", b, 1)
    \/ StartPayment(1, "u1", "Credit Card", NoId)
    \/ AddSelect(1)
    \/ AddWrite(1)
    \/ PayItems(1)
    \/ PayOrder(1)
    \/ PayRecord(1)
    \/ PayStatus(1)
    \/ \E p \in Procs :
        \/ \E o \in 1..2 : StartConfirm(p, "u1", o)
        \/ GocSelect(p)
        \/ GocInsert(p)
        \/ CItems(p)
        \/ CBook(p)
        \/ CAdd(p)
        \/ CStatus(p)
        \/ CDrain(p)
        \/ CPurchase(p)

ConfirmRaceSpec == Init /\ [][ConfirmRaceNext]_vars

\* The checkout of user u1, one request at a time, while books are deleted
\* from the catalog and u1 buys books directly.
CatalogNext ==
    \/ \E b \in BookIds : StartAdd(1, "u1", b, 1)
    \/ StartPayment(1, "u1", "Credit Card", NoId)
    \/ \E o \in 1..2 : StartConfirm(1, "u1", o)
    \/ GocSelect(1)
    \/ GocInsert(1)
    \/ AddSelect(1)
    \/ AddWrite(1)
    \/ PayItems(1)
    \/ PayOrder(1)
    \/ PayRecord(1)
    \/ PayStatus(1)
    \/ CItems(1)
    \/ CBook(1)
    \/ CAdd(1)
    \/ CStatus(1)
    \/ CDrain(1)
    \/ CPurchase(1)
    \/ \E b \in BookIds : DeleteBook(b)
    \/ \E b \in BookIds : PurchaseBook("u1", b)

CatalogSpec == Init /\ [][CatalogNext]_vars

\* The checkout session, one request at a time: u1 fills and empties the
\* cart and pays, both users save or select addresses and read the session.
SessionNext ==
    \/ StartAdd(1, "u1", "A", 1)
    \/ StartDelete(1, "u1", "A")
    \/ \E u \in Users, a \in 0..1, d \in BOOLEAN : StartShipping(1, u, a, TRUE, d)
    \/ \E m \in {"Credit Card", "Bitcoin"}, a \in 0..2 : StartPayment(1, "u1", m, a)
    \/ \E u \in Users : StartSession(1, u)
    \/ GocSelect(1)
    \/ GocInsert(1)
    \/ AddSelect(1)
    \/ AddWrite(1)
    \/ DelWrite(1)
    \/ ShipInsert(1)
    \/ ShipItems(1)
    \/ PayItems(1)
    \/ PayOrder(1)
    \/ PayRecord(1)
    \/ PayStatus(1)
    \/ SessItems(1)
    \/ SessAddresses(1)

SessionSpec == Init /\ [][SessionNext]_vars

\* The payment and the confirmation of u1 on one slot, while u1's cart requests
\* run on the other.
DrainRaceNext ==
    \/ \E m \in {"PayPal", "Bitcoin"} : StartPayment(1, "u1", m, NoId)
    \/ StartConfirm(1, "u1", 1)
    \/ PayItems(1)
    \/ PayOrder(1)
    \/ PayRecord(1)
    \/ PayStatus(1)
    \/ CItems(1)
    \/ CBook(1)
    \/ CAdd(1)
    \/ CStatus(1)
    \/ CDrain(1)
    \/ CPurchase(1)
    \/ \E q \in 0..1 : StartAdd(2, "u1", "A", q)
    \/ \E q \in {0, 3} : StartUpdate(2, "u1", "A", q)
    \/ StartDelete(2, "u1", "A")
    \/ AddSelect(2)
    \/ AddWrite(2)
    \/ UpdWrite(2)
    \/ DelWrite(2)
    \/ \E p \in Procs :
        \/ GocSelect(p)
        \/ GocInsert(p)

DrainRaceSpec == Init /\ [][DrainRaceNext]_vars

\* Calls of addOrderItems running concurrently.
OrderItemsNext ==
    \E p \in Procs :
        \/ \E o \in 1..2, items \in ItemLists : StartAddOrderItems(p, o, items)
        \/ AoiInsert(p)
        \/ AoiCommit(p)

OrderItemsSpec == Init /\ [][OrderItemsNext]_vars

\* ------------------------------------------------------------- cart claims
\* Total quantity stored for a (cart, book) pair.
QtyOf(c, b) ==
    SumSeq([i \in 1..Len(CartItems) |->
                IF CartItems[i].cart_id = c /\ CartItems[i].book_id = b
                THEN CartItems[i].quantity ELSE 0])

\* C4: with the cart requests run one after another, the quantity stored for
\* a (cart, book) built by addOrUpdateCartItem calls alone is the sum of the
\* quantities passed; the first call creates the one row, later calls update it.
C4_QuantityIsSumOfAdds ==
    \A key \in CartIds \X BookIds :
        addOnly[key] =>
            /\ QtyOf(key[1], key[2]) = sumAdded[key]
            /\ Cardinality(CartItemRows(key[1], key[2])) =
                    IF sumAdded[key] > 0 THEN 1 ELSE 0

\* Three units added by at least two calls (a call adds at most two).
C4_Witness ==
    /\ sumAdded[<<1, "A">>] = 3
    /\ addOnly[<<1, "A">>]
    /\ QtyOf(1, "A") = 3
    /\ res.h = "addItemToCart" /\ res.info = "updated"

\* C5 (no lost update): in every state reached by concurrent add-to-cart
\* requests, a (cart, book) pair held in a single row has as quantity the sum
\* of the quantities added.
C5_NoLostUpdate ==
    \A key \in CartIds \X BookIds :
        Cardinality(CartItemRows(key[1], key[2])) <= 1 =>
            QtyOf(key[1], key[2]) = sumAdded[key]

C7_OneDefaultSequential ==
    \A u \in Users :
        /\ Cardinality(DefaultsOf(u)) <= 1
        /\ (pc[1] # "ship_insert" /\ lastDefaultSave[u] # NoId) =>
                DefaultsOf(u) = {lastDefaultSave[u]}

\* A second default save of a user replaced the first one.
C7_Witness ==
    /\ lastDefaultSave["u1"] = 3
    /\ ShippingAddresses[1].user_id = "u1"
    /\ ShippingAddresses[2].user_id = "u2" /\ ShippingAddresses[2].is_default
    /\ DefaultsOf("u1") = {3}

\* C8: no reachable state of concurrently running default saves has two
\* default addresses for a user.
C8_OneDefaultConcurrent ==
    \A u \in Users : Cardinality(DefaultsOf(u)) <= 1

\* ------------------------------------------------------------- checkout claims
\* Rows of OrderItems of one (order, book).
OrderItemRows(o, b) ==
    {i \in 1..Len(OrderItems) :
        OrderItems[i].order_id = o /\ OrderItems[i].book_id = b}

\* C1: confirmOrder requests for the same paid order, however they
\* interleave, leave one set of order items: one row per purchased book.
C1_OneSetOfOrderItems ==
    \A o \in 1..Len(Orders), b \in BookIds :
        Cardinality(OrderItemRows(o, b)) <= 1

\* A confirmOrder request of user u for order o arrives in this step.
ConfirmArrives(u, o) ==
    /\ nreq' = nreq + 1
    /\ \/ \E p \in Procs :
            /\ pc[p] = "idle" /\ pc'[p] # "idle"
            /\ loc'[p].h = "confirmOrder" /\ loc'[p].user = u /\ loc'[p].order = o
       \/ res'.h = "confirmOrder" /\ res'.user = u /\ res'.id = o

\* C2: a confirmOrder request for an order of the caller whose status is not
\* Payment_Success is answered 400 with the status in the message, at once
\* and without a write to any table.
C2_NotPaidIsRefused ==
    [][\A u \in Users, o \in 1..Len(Orders) :
            (/\ ConfirmArrives(u, o)
             /\ Orders[o].user_id = u
             /\ Orders[o].status # "Payment_Success")
            => /\ res'.h = "confirmOrder" /\ res'.code = 400
               /\ res'.info = Orders[o].status
               /\ pc' = pc
               /\ db' = db]_vars

\* The confirmation of a Completed order has just been refused.
C2_Witness ==
    /\ res.h = "confirmOrder" /\ res.code = 400 /\ res.info = "Completed"
    /\ res.id \in 1..Len(Orders)
    /\ Orders[res.id].status = "Completed"
    /\ res.user = Orders[res.id].user_id
    /\ OrderItems # <<>>

\* C3: after exactly the requests add A x2, add B x1, payment, confirm (the
\* catalog at A = 10, B = 5, the order's total 25), the confirm request is
\* answered 200 Completed, the order is Completed with the order items
\* A x2 @10 and B x1 @5, the cart is empty and u1 owns A and B.
C3_HappyPath ==
    (/\ nreq = 4
     /\ res.h = "confirmOrder" /\ res.user = "u1" /\ res.id = 1
     /\ Len(Orders) = 1 /\ Orders[1].user_id = "u1" /\ Orders[1].total_amount = 25
     /\ Books["A"] = 10 /\ Books["B"] = 5)
    => /\ res.code = 200 /\ res.info = "Completed"
       /\ Orders[1].status = "Completed"
       /\ Len(OrderItems) = 2
       /\ \E i \in 1..2 : OrderItems[i] =
            [order_id |-> 1, book_id |-> "A", quantity |-> 2, price_at_purchase |-> 10]
       /\ \E i \in 1..2 : OrderItems[i] =
            [order_id |-> 1, book_id |-> "B", quantity |-> 1, price_at_purchase |-> 5]
       /\ CartItems = <<>>
       /\ {<<"u1", "A">>, <<"u1", "B">>} \subseteq UserBooks

\* Sum of price x quantity over cart items, as read.
CartValue(items) == SumSeq([i \in 1..Len(items) |-> items[i].price * items[i].quantity])

\* C9: the order created by a setPaymentMethod request has as total the sum
\* of price x quantity over the cart items the request read, and the payment
\* recorded for the order carries the order's total.
C9_TotalIsCartValue ==
    [][\A p \in Procs :
        /\ (pc[p] = "pay_order" /\ pc'[p] # "pay_order") =>
                /\ Len(Orders') = Len(Orders) + 1
                /\ Orders'[Len(Orders')].total_amount = CartValue(loc[p].items)
                /\ Orders'[Len(Orders')].user_id = loc[p].user
        /\ (pc[p] = "pay_record" /\ pc'[p] # "pay_record") =>
                /\ Len(Payments') = Len(Payments) + 1
                /\ Payments'[Len(Payments')].order_id = loc[p].order
                /\ Payments'[Len(Payments')].amount = Orders[loc[p].order].total_amount
       ]_vars

\* An order of total 25 (A x2 @10, B x1 @5) with its payment of 25.
C9_Witness ==
    /\ Len(Orders) = 1 /\ Len(Payments) = 1
    /\ Orders[1].total_amount = 25
    /\ Payments[1].amount = 25 /\ Payments[1].order_id = 1
    /\ Len(CartItems) = 2

\* C10: the price confirmOrder records for a cart item is the catalog price
\* at its findBookById; the order items it inserts carry that price and the
\* cart item's quantity; no later step changes an order item.
C10_PriceFrozen ==
    [][/\ \A p \in Procs :
            /\ (pc[p] = "c_book" /\ loc'[p].idx = loc[p].idx + 1) =>
                    loc'[p].prices =
                        Append(loc[p].prices, Books[loc[p].items[loc[p].idx].book_id])
            /\ (pc[p] = "c_add" /\ pc'[p] # "c_add") =>
                    /\ Len(OrderItems') = Len(OrderItems) + Len(loc[p].items)
                    /\ \A i \in 1..Len(loc[p].items) :
                            OrderItems'[Len(OrderItems) + i] =
                                [order_id |-> loc[p].order,
                                 book_id |-> loc[p].items[i].book_id,
                                 quantity |-> loc[p].items[i].quantity,
                                 price_at_purchase |-> loc[p].prices[i]]
       /\ Len(OrderItems') >= Len(OrderItems)
       /\ \A i \in 1..Len(OrderItems) : OrderItems'[i] = OrderItems[i]
      ]_vars

\* An order item whose price_at_purchase is no longer the catalog's price.
C10_Witness ==
    \E i \in 1..Len(OrderItems) :
        /\ OrderItems[i].price_at_purchase # Books[OrderItems[i].book_id]
        /\ Orders[OrderItems[i].order_id].status = "Completed"

\* C11: a confirmOrder request for an order of another user is answered as
\* one for an order that does not exist: 404 with the same body, whatever the
\* order's status, at once and without a write; the answer is never 403.
C11_ForeignOrderIsNotFound ==
    [][\A u \in Users, o \in 1..MaxRequests :
            (/\ ConfirmArrives(u, o)
             /\ (o \notin 1..Len(Orders) \/ Orders[o].user_id # u))
            => /\ res'.h = "confirmOrder" /\ res'.code = 404
               /\ res'.info = "not_found"
               /\ pc' = pc
               /\ db' = db]_vars

\* The confirmation of another user's Completed order has just been refused.
C11_Witness ==
    /\ res.h = "confirmOrder" /\ res.code = 404 /\ res.info = "not_found"
    /\ res.id \in 1..Len(Orders)
    /\ Orders[res.id].user_id # res.user
    /\ Orders[res.id].status = "Completed"

\* C12: a setPaymentMethod request with a method outside Credit Card,
\* PayPal, E-Wallet inserts no Orders row and no Payments row at any of its
\* steps, and its answer is 400, the cart empty or not.
C12_UnsupportedMethodIsRefused ==
    [][\A p \in Procs :
            (/\ pc[p] # "idle" /\ pc'[p] # pc[p]
             /\ loc[p].h = "setPaymentMethod"
             /\ loc[p].method \notin SupportedMethods)
            => /\ Len(Orders') = Len(Orders)
               /\ Len(Payments') = Len(Payments)
               /\ pc'[p] = "idle" =>
                    (res'.h = "setPaymentMethod" /\ res'.code = 400)]_vars

\* A Bitcoin payment for a cart that holds an item has just been refused.
C12_Witness ==
    /\ res.h = "setPaymentMethod" /\ res.code = 400 /\ res.info = "unsupported"
    /\ CartItems # <<>>
    /\ Orders = <<>> /\ Payments = <<>>

\* A step of a checkout request in progress (a query of its handler).
CheckoutStep ==
    \E p \in Procs :
        /\ pc[p] # "idle" /\ pc'[p] # pc[p]
        /\ loc[p].h \in {"setShippingInformation", "setPaymentMethod", "confirmOrder"}

\* The moves of an order's status the checkout allows.
AllowedMoves ==
    {<<"Pending", "Payment_Success">>, <<"Pending", "Payment_Failed">>,
     <<"Payment_Success", "Completed">>}

\* C13: a step of a checkout request creates orders as Pending and moves the
\* status of an order only along Pending -> Payment_Success | Payment_Failed
\* and Payment_Success -> Completed.
C13_StatusMoves ==
    [][CheckoutStep =>
        /\ Len(Orders') >= Len(Orders)
        /\ \A o \in 1..Len(Orders') :
            IF o > Len(Orders)
            THEN Orders'[o].status = "Pending"
            ELSE \/ Orders'[o].status = Orders[o].status
                 \/ <<Orders[o].status, Orders'[o].status>> \in AllowedMoves
      ]_vars

\* The order items of order o, in insertion order.
ItemsOfOrder(items, o) == SelectSeq(items, LAMBDA r : r.order_id = o)

\* C14: a step of a checkout request leaves the total amount, the shipping
\* address, the payment reference and the order items of a Completed order
\* as they are.
C14_CompletedIsImmutable ==
    [][CheckoutStep =>
        \A o \in 1..Len(Orders) :
            Orders[o].status = "Completed" =>
                /\ Len(Orders') >= o
                /\ Orders'[o].total_amount = Orders[o].total_amount
                /\ Orders'[o].shipping_address_id = Orders[o].shipping_address_id
                /\ Orders'[o].payment_id = Orders[o].payment_id
                /\ ItemsOfOrder(OrderItems', o) = ItemsOfOrder(OrderItems, o)
      ]_vars

\* A confirmOrder request for order o is in progress.
ConfirmInProgress(o) ==
    \E p \in Procs :
        pc[p] # "idle" /\ loc[p].h = "confirmOrder" /\ loc[p].order = o

\* C15: when no confirmOrder request for an order is in progress, the order
\* has its order items, the status Completed and the ownership of every
\* purchased book recorded, or it has no order item and is not Completed.
C15_ConfirmIsOneUnit ==
    \A o \in 1..Len(Orders) :
        ~ConfirmInProgress(o) =>
            LET rows == {i \in 1..Len(OrderItems) : OrderItems[i].order_id = o}
                completed == Orders[o].status = "Completed"
                owned == \A i \in rows :
                            <<Orders[o].user_id, OrderItems[i].book_id>> \in UserBooks
            IN  \/ rows # {} /\ completed /\ owned
                \/ rows = {} /\ ~completed

\* C16: a step of an addOrderItems call changes the order items other
\* connections read only at its return, by appending every item of the call;
\* a step that inserts or that raises leaves them as they are.
C16_AllOrNothing ==
    [][\A p \in Procs :
            (/\ pc[p] \in {"aoi_insert", "aoi_commit"}
             /\ (pc'[p] # pc[p] \/ loc'[p] # loc[p]))
            => IF pc'[p] = "idle" /\ res'.info = "returned"
               THEN /\ OrderItems' = OrderItems \o ItemsForOrder(loc[p])
                    /\ res'.h = "addOrderItems" /\ res'.id = loc[p].order
               ELSE OrderItems' = OrderItems]_vars

\* A call for order 2 has just raised, after a call for order 1 returned its
\* two items.
C16_Witness ==
    /\ res.h = "addOrderItems" /\ res.info = "raised" /\ res.id = 2
    /\ ItemsOfOrder(OrderItems, 2) = <<>>
    /\ Len(ItemsOfOrder(OrderItems, 1)) = 2

\* The cart of request p holds an item of a book that is no longer in the
\* catalog and that is not among the items the request read.
MissingBookLeftOut(p) ==
    \E i \in 1..Len(CartItems) :
        /\ CartItems[i].cart_id = loc[p].cart
        /\ Books[CartItems[i].book_id] = NoBook
        /\ \A j \in 1..Len(loc[p].items) :
                loc[p].items[j].book_id # CartItems[i].book_id

\* C17: a confirmOrder request whose cart holds an item of a book that is no
\* longer in the catalog fails as a whole: after reading the cart without that
\* item it inserts no order item and changes neither the order, the cart's
\* items nor the ownership records.
C17_MissingBookFailsClosed ==
    [][\A p \in Procs :
            (/\ loc[p].h = "confirmOrder"
             /\ pc[p] \in {"c_book", "c_add", "c_status", "c_drain", "c_purchase"}
             /\ pc'[p] # pc[p]
             /\ MissingBookLeftOut(p))
            => /\ OrderItems' = OrderItems
               /\ Orders' = Orders
               /\ CartItems' = CartItems
               /\ UserBooks' = UserBooks]_vars

\* C18: a confirmOrder request that comes to record the ownership of a book
\* its caller already owns is answered 409.
C18_OwnedBookIsConflict ==
    [][\A p \in Procs :
            (/\ loc[p].h = "confirmOrder"
             /\ pc[p] = "c_purchase" /\ pc'[p] = "idle"
             /\ \E i \in 1..Len(loc[p].items) :
                    <<loc[p].user, loc[p].items[i].book_id>> \in UserBooks)
            => res'.h = "confirmOrder" /\ res'.code = 409]_vars

\* The caller's cart, as getCartItemsByCartId reads it, holds no item.
CartOfIsEmpty(u) ==
    \A c \in CartRowsOf(u) : getCartItemsByCartId(c) = <<>>

\* C19: confirmOrder decides by its first failing check, in the order: the
\* order exists and is the caller's (404), its status is Payment_Success (400
\* with the status, the cart empty or not), the cart holds an item (400); the
\* request refused for its empty cart has written nothing at any step.
C19_PreconditionOrder ==
    [][/\ \A u \in Users, o \in 1..MaxRequests :
            ConfirmArrives(u, o) =>
                IF o \notin 1..Len(Orders) \/ Orders[o].user_id # u
                THEN res'.code = 404 /\ res'.info = "not_found"
                ELSE IF Orders[o].status # "Payment_Success"
                THEN res'.code = 400 /\ res'.info = Orders[o].status
                ELSE res' = NoRes
       /\ \A p \in Procs :
            (loc[p].h = "confirmOrder" /\ pc[p] # "idle" /\ pc'[p] # pc[p]) =>
                /\ pc[p] \in {"goc_select", "goc_insert", "c_items"} => db' = db
                /\ (pc[p] = "c_items" /\ getCartItemsByCartId(loc[p].cart) = <<>>) =>
                        /\ pc'[p] = "idle"
                        /\ res'.h = "confirmOrder" /\ res'.code = 400
                        /\ res'.info = "cart_empty"
      ]_vars

\* The confirmation of the caller's paid order has just been refused for the
\* empty cart, which the confirmation of an earlier order drained.
C19_Witness ==
    /\ res.h = "confirmOrder" /\ res.code = 400 /\ res.info = "cart_empty"
    /\ res.id \in 1..Len(Orders)
    /\ Orders[res.id].user_id = res.user
    /\ Orders[res.id].status = "Payment_Success"
    /\ CartOfIsEmpty(res.user)
    /\ \E o \in 1..Len(Orders) : Orders[o].status = "Completed"

\* A setShippingInformation request of user u that names the existing
\* address id a arrives in this step (a request that saves a new address
\* inserts it, or has no address yet).
ShippingArrives(u, a) ==
    /\ nreq' = nreq + 1
    /\ ShippingAddresses' = ShippingAddresses
    /\ \/ \E p \in Procs :
            /\ pc[p] = "idle" /\ pc'[p] # "idle"
            /\ loc'[p].h = "setShippingInformation"
            /\ loc'[p].user = u /\ loc'[p].addr = a
       \/ res'.h = "setShippingInformation" /\ res'.user = u /\ res'.id = a

\* C20: a setShippingInformation request that names an address id which is
\* not one of the caller's addresses is answered 404 at once and without a
\* write, and the shippingAddressId of a 200 answer is always an address of
\* the caller.
C20_ForeignAddressIsNotFound ==
    [][/\ \A u \in Users, a \in 1..MaxRequests :
            (ShippingArrives(u, a) /\ a \notin AddressesOf(u))
            => /\ res'.h = "setShippingInformation" /\ res'.code = 404
               /\ pc' = pc
               /\ db' = db
       /\ (res'.h = "setShippingInformation" /\ res'.code = 200)
            => /\ res'.id \in 1..Len(ShippingAddresses')
               /\ ShippingAddresses'[res'.id].user_id = res'.user
      ]_vars

\* The selection of another user's address has just been refused.
C20_Witness ==
    /\ res.h = "setShippingInformation" /\ res.code = 404
    /\ res.id \in 1..Len(ShippingAddresses)
    /\ ShippingAddresses[res.id].user_id # res.user
    /\ ~CartOfIsEmpty(res.user)

\* C21: setShippingInformation and setPaymentMethod requests that find the
\* caller's cart empty are answered 400, and the setPaymentMethod request
\* ends there, with no Orders row and no Payments row inserted.
C21_EmptyCartIsRefused ==
    [][\A p \in Procs :
            (/\ pc[p] \in {"ship_items", "pay_items"}
             /\ pc'[p] # pc[p]
             /\ getCartItemsByCartId(loc[p].cart) = <<>>)
            => /\ pc'[p] = "idle"
               /\ res'.h = loc[p].h /\ res'.code = 400 /\ res'.info = "cart_empty"
               /\ Orders' = Orders
               /\ Payments' = Payments]_vars

\* A payment with a supported method has just been refused for the empty
\* cart, after a shipping request that saved an address.
C21_Witness ==
    /\ res.h = "setPaymentMethod" /\ res.code = 400 /\ res.info = "cart_empty"
    /\ ShippingAddresses # <<>>
    /\ CartItems = <<>>
    /\ Orders = <<>> /\ Payments = <<>>

\* Payments rows recorded for order o, as indices.
PaymentsOfOrder(o) == {i \in 1..Len(Payments) : Payments[i].order_id = o}

\* The order has a payment: its payment_id names a Payments row of the order.
HasLinkedPayment(o) ==
    /\ Orders[o].payment_id \in 1..Len(Payments)
    /\ Payments[Orders[o].payment_id].order_id = o

C23_SupportedPaymentSucceeds ==
    /\ [](/\ \A o \in 1..Len(Orders) : Orders[o].status # "Payment_Failed"
          /\ res.code # 402)
    /\ [][\A p \in Procs :
            /\ (/\ pc[p] = "pay_items" /\ pc'[p] # pc[p]
                /\ loc[p].method \in SupportedMethods
                /\ getCartItemsByCartId(loc[p].cart) # <<>>)
               => pc'[p] = "pay_order"
            /\ (pc[p] = "pay_record" /\ pc'[p] # pc[p])
               => /\ Len(Payments') = Len(Payments) + 1
                  /\ Payments'[Len(Payments')].status = "Completed"
                  /\ Payments'[Len(Payments')].transaction_id # "null"
            /\ (pc[p] = "pay_status" /\ pc'[p] # pc[p])
               => /\ pc'[p] = "idle"
                  /\ Orders'[loc[p].order].status = "Payment_Success"
                  /\ res'.h = "setPaymentMethod" /\ res'.code = 200
                  /\ res'.info = "Payment_Success"]_vars

\* A PayPal payment has just been answered 200, the cart still holding what
\* was paid, after an earlier payment of the same user was confirmed.
C23_Witness ==
    /\ res.h = "setPaymentMethod" /\ res.code = 200 /\ res.id = 2
    /\ Orders[2].status = "Payment_Success"
    /\ Payments[2].payment_method = "PayPal" /\ Payments[2].status = "Completed"
    /\ Orders[1].status = "Completed"
    /\ CartItems # <<>>

\* C24: getCheckoutSessionStatus is a pure read: no step of the request changes
\* the store, also when the caller has no cart yet.
C24_SessionIsPureRead ==
    [][\A p \in Procs :
            (loc[p].h = "getCheckoutSessionStatus" /\ pc'[p] # pc[p])
                => db' = db]_vars

\* C25: at most one Carts row per user, also when two getOrCreateCart calls for
\* a user without a cart run concurrently.
C25_OneCartPerUser ==
    \A u \in Users : Cardinality(CartRowsOf(u)) <= 1

\* C26: every CartItems row has a quantity > 0, whatever adds, updates, deletes
\* and confirmations have run.
C26_QuantitiesArePositive ==
    \A i \in 1..Len(CartItems) : CartItems[i].quantity > 0

\* An add of quantity 0 has just been refused, the cart holding a row that an
\* update wrote after an earlier confirmation drained the cart.
C26_Witness ==
    /\ res.h = "addItemToCart" /\ res.code = 400
    /\ \E o \in 1..Len(Orders) : Orders[o].status = "Completed"
    /\ \E i \in 1..Len(CartItems) : CartItems[i].quantity = 3

\* The (book, quantity) pairs of the order items of order o.
OrderItemPairs(o) ==
    {<<OrderItems[i].book_id, OrderItems[i].quantity>> :
        i \in {j \in 1..Len(OrderItems) : OrderItems[j].order_id = o}}

\* C27: the order items of a Completed order are exactly the (book, quantity)
\* pairs of the cart from which its payment computed the total.
C27_OrderItemsArePaidItems ==
    \A o \in 1..Len(Orders) :
        Orders[o].status = "Completed"
            => /\ OrderItemPairs(o) = {paidItems[o][i] : i \in 1..Len(paidItems[o])}
               /\ Cardinality({j \in 1..Len(OrderItems) : OrderItems[j].order_id = o})
                    = Len(paidItems[o])

\* C28: a setShippingInformation request answered 400 for an empty cart leaves
\* ShippingAddresses as it was when the request arrived.
C28_EmptyCartKeepsAddresses ==
    [][\A p \in Procs :
            (/\ pc[p] = "ship_items" /\ pc'[p] = "idle"
             /\ res'.code = 400 /\ res'.info = "cart_empty")
                => ShippingAddresses' = loc[p].addrs0]_vars

\* C29: the shipping address of every order is null or an address of the
\* order's user.
C29_OrderAddressIsOwn ==
    \A o \in 1..Len(Orders) :
        \/ Orders[o].shipping_address_id = NoId
        \/ OwnAddress(Orders[o].shipping_address_id, Orders[o].user_id)

\* C30: every CartItems row that a confirmation's removeCartItem deletes is in
\* the order's items with the quantity it has when it is deleted.
C30_DrainedIsOrdered ==
    [][\A p \in Procs :
            (pc[p] = "c_drain" /\ loc'[p].idx = loc[p].idx + 1)
            => LET b == loc[p].items[loc[p].idx].book_id
               IN  \A i \in CartItemRows(loc[p].cart, b) :
                        \E j \in 1..Len(OrderItems) :
                            /\ OrderItems[j].order_id = loc[p].order
                            /\ OrderItems[j].book_id = b
                            /\ OrderItems[j].quantity = CartItems[i].quantity]_vars
====
